---- MODULE Spec2Model ----
(***************************************************************************)
(* Model of memgpt/server/rest_api/agents/memory.py: the two REST handlers *)
(* get_agent_memory and update_agent_memory, running concurrently (they    *)
(* are synchronous "def" endpoints, one worker thread per request) over    *)
(* the shared SyncServer and QueuingInterface.                             *)
(***************************************************************************)
EXTENDS Integers, Sequences, FiniteSets, TLC

\* ---------------------------------------------------------------- bounds
\* Requests received in a run; each is handled by a worker of its own.
MaxRequests == 2

\* Workers, numbered in the order their requests arrive.
Clients == 1..MaxRequests

\* ---------------------------------------------------------------- values
\* Python's None (an omitted request field, an unset core-memory field, the
\* agent_id the handlers pass for an empty identifier).
None == "None"

\* Text values a caller can put in human / persona: omitted, empty, a value.
FieldInputs == {None, "", "x"}

\* Identifier strings a caller can send.  "A1" is the upper-case spelling of
\* the UUID a1, "c3" is a well-formed UUID of no agent, "zz" is not hex.
RawIds == {"", "A1", "a2", "c3", "zz"}

\* uuid.UUID(s): the canonical value of a well-formed identifier.
CanonicalUUID == [s \in {"A1", "a2", "c3"} |->
                    CASE s = "A1" -> "a1"
                      [] s = "a2" -> "a2"
                      [] s = "c3" -> "c3"]

\* The agents that exist (created by the agent lifecycle, outside this file).
Agents == {"a1", "a2"}

\* ------------------------------------------------ memory.py: pure helpers
\* class CoreMemory
CoreMemory(h, p) == [human |-> h, persona |-> p]

\* Variant of ParseAgentId: a string that is not a UUID is treated like an
\* absent identifier instead of raising.
ParseAgentId_lenient(raw) ==
    IF raw = "" THEN [ok |-> TRUE, uuid |-> None]
    ELSE IF raw \in DOMAIN CanonicalUUID
         THEN [ok |-> TRUE, uuid |-> CanonicalUUID[raw]]
         ELSE [ok |-> TRUE, uuid |-> None]

\* agent_id = uuid.UUID(request.agent_id) if request.agent_id else None
\* uuid.UUID raises ValueError on a string that is not a UUID.
ParseAgentId(raw) ==
    IF raw = "" THEN [ok |-> TRUE, uuid |-> None]
    ELSE IF raw \in DOMAIN CanonicalUUID
         THEN [ok |-> TRUE, uuid |-> CanonicalUUID[raw]]
         ELSE [ok |-> FALSE, uuid |-> None]

\* Variant of NewMemoryContents: the two keys carry each other's value.
NewMemoryContents_crossed(r) == [persona |-> r.human, human |-> r.persona]

\* Variant of NewMemoryContents: "request.human or None", which turns an
\* explicit empty string into None.
NewMemoryContents_falsy(r) ==
    [persona |-> IF r.persona = "" THEN None ELSE r.persona,
     human |-> IF r.human = "" THEN None ELSE r.human]

\* new_memory_contents = {"persona": request.persona, "human": request.human}
NewMemoryContents(r) == [persona |-> r.persona, human |-> r.human]

\* server.get_agent_memory(user_id=user_id, agent_id=agent_id)
GetAgentMemoryArgs(r) == [agent_id |-> r.uuid]

\* Variant of UpdateAgentMemoryArgs: the call names a fixed agent instead of
\* the request's.
UpdateAgentMemoryArgs_fixed_agent(r) ==
    [agent_id |-> IF r.uuid \in {"a1", "a2"} THEN "a1" ELSE r.uuid,
     new_memory_contents |-> r.new_memory_contents]

\* server.update_agent_core_memory(user_id=..., agent_id=agent_id,
\*                                 new_memory_contents=new_memory_contents)
UpdateAgentMemoryArgs(r) ==
    [agent_id |-> r.uuid, new_memory_contents |-> r.new_memory_contents]

\* Variant of GetAgentMemoryResponse: human and persona swapped.
GetAgentMemoryResponse_swapped(m) ==
    [core_memory |-> CoreMemory(m.core_memory.persona, m.core_memory.human),
     recall_memory |-> m.recall_memory,
     archival_memory |-> m.archival_memory]

\* GetAgentMemoryResponse(**memory)
GetAgentMemoryResponse(m) ==
    [core_memory |-> CoreMemory(m.core_memory.human, m.core_memory.persona),
     recall_memory |-> m.recall_memory,
     archival_memory |-> m.archival_memory]

\* Variant of UpdateAgentMemoryResponse: old and new swapped.
UpdateAgentMemoryResponse_swapped(s) ==
    [old_core_memory |-> CoreMemory(s.new_core_memory.human, s.new_core_memory.persona),
     new_core_memory |-> CoreMemory(s.old_core_memory.human, s.old_core_memory.persona)]

\* UpdateAgentMemoryResponse(**response)
UpdateAgentMemoryResponse(s) ==
    [old_core_memory |-> CoreMemory(s.old_core_memory.human, s.old_core_memory.persona),
     new_core_memory |-> CoreMemory(s.new_core_memory.human, s.new_core_memory.persona)]

\* ------------------------------------------- SyncServer (backing service)
\* The core memory held in a stored record.
CoreOf(rec) == CoreMemory(rec.human, rec.persona)

\* SyncServer.get_agent_memory: the whole record, or NotFound.
server_get_agent_memory(st, args) ==
    IF args.agent_id \in DOMAIN st
    THEN [status |-> "ok",
          memory |-> <<[core_memory |-> CoreOf(st[args.agent_id]),
                        recall_memory |-> st[args.agent_id].recall_memory_count,
                        archival_memory |-> st[args.agent_id].archival_memory_count]>>]
    ELSE [status |-> "NotFound", memory |-> <<>>]

\* One field of an update: None means "leave unchanged".
MergeField(old, new) == IF new = None THEN old ELSE new

\* Variant of StoredAfterUpdate: an update also counts as a recall entry.
StoredAfterUpdate_counted(rec, contents) ==
    [rec EXCEPT !.human = MergeField(rec.human, contents.human),
                !.persona = MergeField(rec.persona, contents.persona),
                !.recall_memory_count = @ + 1]

\* The record update_agent_core_memory stores.
StoredAfterUpdate(rec, contents) ==
    [rec EXCEPT !.human = MergeField(rec.human, contents.human),
                !.persona = MergeField(rec.persona, contents.persona)]

\* SyncServer.update_agent_core_memory: an atomic read-modify-write of one
\* agent's record that returns the core memory before and after.
server_update_agent_core_memory(st, args) ==
    IF args.agent_id \in DOMAIN st
    THEN LET rec == st[args.agent_id]
             new == [human |-> MergeField(rec.human, args.new_memory_contents.human),
                     persona |-> MergeField(rec.persona, args.new_memory_contents.persona)]
         IN [status |-> "ok",
             store |-> [st EXCEPT ![args.agent_id] =
                           StoredAfterUpdate(rec, args.new_memory_contents)],
             response |-> <<[old_core_memory |-> CoreOf(rec), new_core_memory |-> new]>>]
    ELSE [status |-> "NotFound", store |-> st, response |-> <<>>]

\* ----------------------------------------------------------------- state
VARIABLES
    store,             \* SyncServer: agent uuid -> memory record
    interface_buffer,  \* QueuingInterface: buffered messages, shared
    req,               \* per worker: the request it handles
    history            \* per agent: the core memories committed, in order

vars == <<store, interface_buffer, req, history>>

Idle == [op |-> "none", agent_id |-> "", human |-> None, persona |-> None,
         pc |-> "idle", uuid |-> None, new_memory_contents |-> <<>>,
         ret |-> <<>>, status |-> "none", response |-> <<>>,
         cancelled |-> FALSE, server_called |-> FALSE, idx |-> 0]

\* Agent a1 starts as in the documented example (human unset, a persona),
\* agent a2 the other way round; each has its own recall and archival counts.
Init ==
    /\ store = [a \in Agents |->
                  IF a = "a1"
                  THEN [human |-> None, persona |-> "x",
                        recall_memory_count |-> 3, archival_memory_count |-> 0]
                  ELSE [human |-> "x", persona |-> None,
                        recall_memory_count |-> 0, archival_memory_count |-> 5]]
    /\ interface_buffer \in {<<>>, <<"msg">>}
    /\ req = [c \in Clients |-> Idle]
    /\ history = [a \in Agents |-> <<CoreOf(store[a])>>]

\* --------------------------------------------------------------- actions
\* A GET /agents/memory request arrives and get_agent_memory runs up to the
\* server call: validate, parse the identifier, interface.clear()
GetStart(c) ==
    /\ req[c].pc = "idle"
    /\ c > 1 => req[c - 1].pc # "idle"
    /\ \E raw \in RawIds :
         LET p == ParseAgentId(raw)
             r == [Idle EXCEPT !.op = "get", !.agent_id = raw] IN
         IF p.ok
         THEN /\ req' = [req EXCEPT ![c] = [r EXCEPT !.uuid = p.uuid, !.pc = "parsed"]]
              /\ interface_buffer' = <<>>
         ELSE /\ req' = [req EXCEPT ![c] = [r EXCEPT !.status = "InvalidIdentifier",
                                                     !.pc = "done"]]
              /\ UNCHANGED interface_buffer
    /\ UNCHANGED <<store, history>>

\* Variant of GetCall: a failing server call is swallowed and an empty
\* memory is returned in its place.
GetCall_swallow(c) ==
    /\ req[c].op = "get" /\ req[c].pc = "parsed"
    /\ LET r == server_get_agent_memory(store, GetAgentMemoryArgs(req[c])) IN
         IF r.status = "ok"
         THEN req' = [req EXCEPT ![c].ret = r.memory, ![c].pc = "called",
                                 ![c].server_called = TRUE,
                                 ![c].idx = Len(history[GetAgentMemoryArgs(req[c]).agent_id])]
         ELSE req' = [req EXCEPT ![c].ret = <<[core_memory |-> CoreMemory(None, None),
                                              recall_memory |-> 0,
                                              archival_memory |-> 0]>>,
                                 ![c].pc = "called", ![c].server_called = TRUE]
    /\ UNCHANGED <<store, interface_buffer, history>>

\* Variant of GetCall: the read writes the record back with unset fields
\* normalised to the empty string.
GetCall_writes(c) ==
    /\ req[c].op = "get" /\ req[c].pc = "parsed"
    /\ LET r == server_get_agent_memory(store, GetAgentMemoryArgs(req[c]))
           a == GetAgentMemoryArgs(req[c]).agent_id IN
         IF r.status = "ok"
         THEN /\ req' = [req EXCEPT ![c].ret = r.memory, ![c].pc = "called",
                                    ![c].server_called = TRUE,
                                    ![c].idx = Len(history[a])]
              /\ store' = [store EXCEPT
                              ![a].human = IF @ = None THEN "" ELSE @,
                              ![a].persona = IF @ = None THEN "" ELSE @]
         ELSE /\ req' = [req EXCEPT ![c].status = r.status, ![c].pc = "done",
                                    ![c].server_called = TRUE]
              /\ UNCHANGED store
    /\ UNCHANGED <<interface_buffer, history>>

\* memory = server.get_agent_memory(user_id=user_id, agent_id=agent_id)
GetCall(c) ==
    /\ req[c].op = "get" /\ req[c].pc = "parsed"
    /\ LET r == server_get_agent_memory(store, GetAgentMemoryArgs(req[c])) IN
         IF r.status = "ok"
         THEN req' = [req EXCEPT ![c].ret = r.memory, ![c].pc = "called",
                                 ![c].server_called = TRUE,
                                 ![c].idx = Len(history[GetAgentMemoryArgs(req[c]).agent_id])]
         ELSE req' = [req EXCEPT ![c].status = r.status, ![c].pc = "done",
                                 ![c].server_called = TRUE]
    /\ UNCHANGED <<store, interface_buffer, history>>

\* return GetAgentMemoryResponse(**memory)
GetReturn(c) ==
    /\ req[c].op = "get" /\ req[c].pc = "called"
    /\ req' = [req EXCEPT ![c].response = <<GetAgentMemoryResponse(req[c].ret[1])>>,
                          ![c].status = "ok", ![c].pc = "done"]
    /\ UNCHANGED <<store, interface_buffer, history>>

\* A POST /agents/memory request arrives and update_agent_memory runs up to
\* the server call: parse the identifier, interface.clear(), build
\* new_memory_contents
UpdateStart(c) ==
    /\ req[c].pc = "idle"
    /\ c > 1 => req[c - 1].pc # "idle"
    /\ \E raw \in RawIds, h \in FieldInputs, q \in FieldInputs :
         \* on an identifier of no agent the payload is never looked at:
         \* one payload stands for all
         /\ raw \notin {"A1", "a2"} => (h = "x" /\ q = "")
         /\ LET p == ParseAgentId(raw)
                r == [Idle EXCEPT !.op = "update", !.agent_id = raw,
                                  !.human = h, !.persona = q] IN
            IF p.ok
            THEN /\ req' = [req EXCEPT ![c] =
                              [r EXCEPT !.uuid = p.uuid, !.pc = "parsed",
                                        !.new_memory_contents = <<NewMemoryContents(r)>>]]
                 /\ interface_buffer' = <<>>
            ELSE /\ req' = [req EXCEPT ![c] = [r EXCEPT !.status = "InvalidIdentifier",
                                                        !.pc = "done"]]
                 /\ UNCHANGED interface_buffer
    /\ UNCHANGED <<store, history>>

\* Variant of UpdateCall: the handler sends persona and human to the server
\* one after the other, and a cancelled request stops after persona.
UpdateCall_per_field(c) ==
    /\ req[c].op = "update" /\ req[c].pc = "parsed"
    /\ LET given == UpdateAgentMemoryArgs(req[c]).new_memory_contents[1]
           args == [agent_id |-> UpdateAgentMemoryArgs(req[c]).agent_id,
                    new_memory_contents |->
                       IF req[c].cancelled
                       THEN [persona |-> given.persona, human |-> None]
                       ELSE given]
           r == server_update_agent_core_memory(store, args) IN
         IF r.status = "ok"
         THEN /\ store' = r.store
              /\ history' = [history EXCEPT ![args.agent_id] =
                                Append(@, r.response[1].new_core_memory)]
              /\ req' = [req EXCEPT ![c].ret = r.response, ![c].pc = "called",
                                    ![c].server_called = TRUE,
                                    ![c].idx = Len(history[args.agent_id]) + 1]
         ELSE /\ store' = r.store
              /\ req' = [req EXCEPT ![c].status = r.status, ![c].pc = "done",
                                    ![c].server_called = TRUE]
              /\ UNCHANGED history
    /\ UNCHANGED interface_buffer

\* response = server.update_agent_core_memory(...)
UpdateCall(c) ==
    /\ req[c].op = "update" /\ req[c].pc = "parsed"
    /\ LET args == [agent_id |-> UpdateAgentMemoryArgs(req[c]).agent_id,
                    new_memory_contents |-> UpdateAgentMemoryArgs(req[c]).new_memory_contents[1]]
           r == server_update_agent_core_memory(store, args) IN
         IF r.status = "ok"
         THEN /\ store' = r.store
              /\ history' = [history EXCEPT ![args.agent_id] =
                                Append(@, r.response[1].new_core_memory)]
              /\ req' = [req EXCEPT ![c].ret = r.response, ![c].pc = "called",
                                    ![c].server_called = TRUE,
                                    ![c].idx = Len(history[args.agent_id]) + 1]
         ELSE /\ store' = r.store
              /\ req' = [req EXCEPT ![c].status = r.status, ![c].pc = "done",
                                    ![c].server_called = TRUE]
              /\ UNCHANGED history
    /\ UNCHANGED interface_buffer

\* return UpdateAgentMemoryResponse(**response)
UpdateReturn(c) ==
    /\ req[c].op = "update" /\ req[c].pc = "called"
    /\ req' = [req EXCEPT ![c].response = <<UpdateAgentMemoryResponse(req[c].ret[1])>>,
                          ![c].status = "ok", ![c].pc = "done"]
    /\ UNCHANGED <<store, interface_buffer, history>>

\* The caller gives up on a request in flight.  The handlers are plain
\* synchronous functions with no cancellation point: the worker runs on.
\* Tracked for the updates that write both fields, the ones a partial
\* application could show in.
Cancel(c) ==
    /\ req[c].op = "update"
    /\ req[c].human # None /\ req[c].persona # None
    /\ req[c].pc \in {"parsed", "called"}
    /\ ~req[c].cancelled
    /\ req' = [req EXCEPT ![c].cancelled = TRUE]
    /\ UNCHANGED <<store, interface_buffer, history>>

Next ==
    \E c \in Clients :
        \/ GetStart(c)
        \/ GetCall(c)
        \/ GetReturn(c)
        \/ UpdateStart(c)
        \/ UpdateCall(c)
        \/ UpdateReturn(c)
        \/ Cancel(c)

Spec == Init /\ [][Next]_vars

TypeOK ==
    /\ DOMAIN store = Agents
    /\ \A a \in Agents : Len(history[a]) \in 1..(MaxRequests + 1)
    /\ \A c \in Clients : req[c].pc \in {"idle", "parsed", "called", "done"}

\* ------------------------------------------------------- shared notions
\* Client c's request is a finished, successful request of kind op.
DoneOk(c, op) == req[c].op = op /\ req[c].pc = "done" /\ req[c].status = "ok"

\* Client c's update has been committed by the server.
Committed(c) == req[c].op = "update" /\ req[c].pc \in {"called", "done"}
                /\ req[c].uuid \in Agents /\ req[c].status \in {"none", "ok"}

\* The step is the server call of client c's update, and it succeeds.
Commits(c) == req[c].op = "update" /\ req[c].pc = "parsed" /\ req'[c].pc = "called"

\* Identifiers uuid.UUID rejects.
MalformedIds == RawIds \ ({""} \cup {"A1", "a2", "c3"})

\* Well-formed identifiers of no agent.
UnknownIds == {"c3"}

Last(s) == s[Len(s)]

\* ----------------------------------------------------------------- C1
\* C1 (as amended): concurrent updates of one agent take effect in a total
\* order: every successful update's response has old_core_memory equal to the
\* core memory committed immediately before it (the agent's initial core
\* memory for the first) and new_core_memory equal to what it committed, and
\* no two committed updates of an agent occupy the same place in the order.
C1_UpdatesFormAChain ==
    /\ \A c \in Clients : DoneOk(c, "update") =>
          /\ req[c].uuid \in Agents
          /\ req[c].idx \in 2..Len(history[req[c].uuid])
          /\ req[c].response[1].old_core_memory = history[req[c].uuid][req[c].idx - 1]
          /\ req[c].response[1].new_core_memory = history[req[c].uuid][req[c].idx]
    /\ \A c, d \in Clients :
          (c # d /\ Committed(c) /\ Committed(d) /\ req[c].uuid = req[d].uuid)
             => req[c].idx # req[d].idx
    /\ \A a \in Agents : CoreOf(store[a]) = Last(history[a])

\* Two overlapping updates of one agent, the later one overtaking the earlier:
\* d committed after c and has returned while c has not, and d's
\* old_core_memory is what c committed.
C1_Witness ==
    \E c, d \in Clients :
        /\ c # d /\ req[c].op = "update" /\ req[c].pc = "called"
        /\ DoneOk(d, "update") /\ req[c].uuid = req[d].uuid
        /\ req[d].idx = req[c].idx + 1
        /\ req[d].response[1].old_core_memory = req[c].ret[1].new_core_memory
        /\ req[d].response[1].old_core_memory # req[d].response[1].new_core_memory

\* C1 as stated: in addition to the chain, no two updates of the same agent
\* report the same old_core_memory.
C1_Original ==
    /\ C1_UpdatesFormAChain
    /\ \A c, d \in Clients :
          (c # d /\ DoneOk(c, "update") /\ DoneOk(d, "update")
               /\ req[c].uuid = req[d].uuid)
             => req[c].response[1].old_core_memory # req[d].response[1].old_core_memory

\* ----------------------------------------------------------------- C2
\* C2: a successful FetchMemory on agent A returns the human and persona of
\* the update most recently committed on A when the server was read (A's
\* initial values if there was none), with A's two counts; when no update
\* has been committed since, that is the stored record.
C2_FetchReturnsLatestCommitted ==
    \A c \in Clients : DoneOk(c, "get") =>
        LET a == req[c].uuid
            r == req[c].response[1] IN
        /\ a \in Agents
        /\ req[c].idx \in 1..Len(history[a])
        /\ r.core_memory = history[a][req[c].idx]
        /\ r.recall_memory = store[a].recall_memory_count
        /\ r.archival_memory = store[a].archival_memory_count
        /\ req[c].idx = Len(history[a]) => r.core_memory = CoreOf(store[a])

\* A fetch that ran after an update changed the agent's core memory.
C2_Witness ==
    \E c \in Clients :
        /\ DoneOk(c, "get") /\ req[c].uuid \in Agents
        /\ req[c].idx >= 2
        /\ req[c].response[1].core_memory # history[req[c].uuid][1]

\* ----------------------------------------------------------------- C3
\* C3: an update that omits a field (None) leaves that field as it was, in
\* the stored record and in the returned new_core_memory, for human and for
\* persona; an update that omits both leaves the core memory unchanged.
C3_OmittedFieldUnchanged ==
    [][ /\ \A c \in Clients : Commits(c) =>
              LET a == req[c].uuid IN
              /\ req[c].human = None => store'[a].human = store[a].human
              /\ req[c].persona = None => store'[a].persona = store[a].persona
              /\ (req[c].human = None /\ req[c].persona = None) => store' = store
        /\ \A c \in Clients :
              (req'[c].op = "update" /\ req'[c].pc = "done" /\ req'[c].status = "ok") =>
              LET r == req'[c].response[1] IN
              /\ req'[c].human = None =>
                    r.new_core_memory.human = r.old_core_memory.human
              /\ req'[c].persona = None =>
                    r.new_core_memory.persona = r.old_core_memory.persona
      ]_vars

\* A finished update that supplied human only: human changed, persona kept
\* its (set) value.
C3_Witness ==
    \E c \in Clients :
        /\ DoneOk(c, "update")
        /\ req[c].human # None /\ req[c].persona = None
        /\ req[c].response[1].new_core_memory.human = req[c].human
        /\ req[c].response[1].new_core_memory.human # req[c].response[1].old_core_memory.human
        /\ req[c].response[1].new_core_memory.persona = "x"
        /\ store[req[c].uuid].persona = "x"

\* ----------------------------------------------------------------- C4
\* C4: an update that gives a field as the empty string stores the empty
\* string in that field and returns it in new_core_memory; when the field
\* was not empty before, that differs from what the same update with the
\* field omitted would store.
C4_EmptyStringIsSet ==
    [][ /\ \A c \in Clients : Commits(c) =>
              LET a == req[c].uuid IN
              /\ req[c].human = "" =>
                    /\ store'[a].human = ""
                    /\ store[a].human # "" =>
                          store'[a].human #
                             StoredAfterUpdate(store[a],
                                [human |-> None, persona |-> req[c].persona]).human
              /\ req[c].persona = "" =>
                    /\ store'[a].persona = ""
                    /\ store[a].persona # "" =>
                          store'[a].persona #
                             StoredAfterUpdate(store[a],
                                [human |-> req[c].human, persona |-> None]).persona
        /\ \A c \in Clients :
              (req'[c].op = "update" /\ req'[c].pc = "done" /\ req'[c].status = "ok") =>
              /\ req'[c].human = "" => req'[c].response[1].new_core_memory.human = ""
              /\ req'[c].persona = "" => req'[c].response[1].new_core_memory.persona = ""
      ]_vars

\* A finished update that cleared a persona that held text.
C4_Witness ==
    \E c \in Clients :
        /\ DoneOk(c, "update")
        /\ req[c].persona = ""
        /\ req[c].response[1].old_core_memory.persona = "x"
        /\ req[c].response[1].new_core_memory.persona = ""
        /\ store[req[c].uuid].persona = ""

\* ----------------------------------------------------------------- C5
\* C5: no step of any request, successful or failing, changes the
\* recall_memory_count or archival_memory_count of any record.
C5_CountsNeverChange ==
    [][ \A a \in DOMAIN store :
          /\ a \in DOMAIN store'
          /\ store'[a].recall_memory_count = store[a].recall_memory_count
          /\ store'[a].archival_memory_count = store[a].archival_memory_count
      ]_vars

\* Two updates of one agent have been committed, both changing its core
\* memory, while the counts are still the agent's own.
C5_Witness ==
    \E a \in Agents :
        /\ Len(history[a]) >= 3
        /\ history[a][2] # history[a][1] /\ history[a][3] # history[a][2]
        /\ store[a].recall_memory_count # store[a].archival_memory_count

\* ----------------------------------------------------------------- C6
\* C6: a FetchMemory or UpdateCoreMemory whose identifier is well formed
\* but names no agent ends in NotFound with no record returned, and its
\* server call changes no record and creates none.
C6_UnknownAgentNotFound ==
    [][ \A c \in Clients :
          (req[c].agent_id \in UnknownIds /\ req[c].pc = "parsed"
              /\ req'[c] # req[c] /\ req'[c].cancelled = req[c].cancelled) =>
             /\ req'[c].pc = "done"
             /\ req'[c].status = "NotFound"
             /\ req'[c].response = <<>>
             /\ req'[c].server_called
             /\ store' = store
             /\ DOMAIN store' = Agents
             /\ history' = history
      ]_vars

\* Both operations have just failed with NotFound on the unknown agent.
C6_Witness ==
    \E c, d \in Clients :
        /\ req[c].op = "get" /\ req[d].op = "update"
        /\ req[c].agent_id \in UnknownIds /\ req[d].agent_id \in UnknownIds
        /\ req[c].pc = "done" /\ req[d].pc = "done"
        /\ req[c].status = "NotFound" /\ req[d].status = "NotFound"
        /\ req[d].human # None

\* ----------------------------------------------------------------- C7
\* C7 (as amended): a request whose identifier is a non-empty string that is
\* not a UUID fails with InvalidIdentifier on arrival, before the server is
\* called: store, interface buffer and history are untouched.  An
\* empty identifier is not rejected: the handler goes on with agent_id None.
C7_MalformedRejectedEarly ==
    [][ \A c \in Clients :
          (req[c].pc = "idle" /\ req'[c] # req[c]) =>
             /\ req'[c].agent_id \in MalformedIds =>
                   /\ req'[c].pc = "done"
                   /\ req'[c].status = "InvalidIdentifier"
                   /\ req'[c].response = <<>>
                   /\ ~req'[c].server_called
                   /\ store' = store
                   /\ interface_buffer' = interface_buffer
                   /\ history' = history
             /\ req'[c].agent_id = "" =>
                   /\ req'[c].pc = "parsed"
                   /\ req'[c].uuid = None
      ]_vars

\* Both operations have been rejected for a malformed identifier while the
\* interface buffer still holds its message.
C7_Witness ==
    \E c, d \in Clients :
        /\ req[c].op = "get" /\ req[d].op = "update"
        /\ req[c].agent_id \in MalformedIds /\ req[d].agent_id \in MalformedIds
        /\ req[c].status = "InvalidIdentifier" /\ req[d].status = "InvalidIdentifier"
        /\ interface_buffer # <<>>

\* C7 as stated: a finished request whose identifier is malformed, the empty
\* string included, has failed with InvalidIdentifier without the server
\* having been called.
C7_Original ==
    \A c \in Clients :
        (req[c].pc = "done" /\ req[c].agent_id \in MalformedIds \cup {""}) =>
            /\ req[c].status = "InvalidIdentifier"
            /\ ~req[c].server_called

\* ----------------------------------------------------------------- C8
\* C8: a cancelled update that supplies both fields is applied whole or not
\* at all: once committed, the state it produced is exactly its two values;
\* the stored core memory is always the last committed state, and every
\* fetch returns a committed state.
C8_CancelledUpdateIsAtomic ==
    /\ \A c \in Clients :
          (Committed(c) /\ req[c].cancelled
              /\ req[c].human # None /\ req[c].persona # None) =>
             /\ req[c].idx \in 2..Len(history[req[c].uuid])
             /\ history[req[c].uuid][req[c].idx] =
                   CoreMemory(req[c].human, req[c].persona)
    /\ \A a \in Agents : CoreOf(store[a]) = Last(history[a])
    /\ \A d \in Clients : DoneOk(d, "get") =>
          \E k \in 1..Len(history[req[d].uuid]) :
              req[d].response[1].core_memory = history[req[d].uuid][k]

\* An update of both fields was cancelled before its server call, went
\* through, and a later fetch returned both new values.
C8_Witness ==
    \E c, d \in Clients :
        /\ Committed(c) /\ req[c].cancelled
        /\ req[c].human # None /\ req[c].persona # None
        /\ DoneOk(d, "get") /\ req[d].uuid = req[c].uuid
        /\ req[d].idx = req[c].idx
        /\ req[d].response[1].core_memory = CoreMemory(req[c].human, req[c].persona)
        /\ history[req[c].uuid][1].human # req[c].human
        /\ history[req[c].uuid][1].persona # req[c].persona

\* ----------------------------------------------------------------- C9
\* C9: no step of a FetchMemory request changes any record or the set of
\* records; a step that changes a record is the successful server call of an
\* UpdateCoreMemory.
C9_FetchIsPureRead ==
    [][ /\ \A c \in Clients :
              ((req[c].op = "get" \/ req'[c].op = "get") /\ req'[c] # req[c]) =>
                  /\ store' = store
                  /\ history' = history
        /\ store' # store => \E c \in Clients : Commits(c)
        /\ DOMAIN store' = DOMAIN store
      ]_vars

\* A fetch of an existing agent has returned its record.
C9_Witness ==
    \E c \in Clients :
        /\ DoneOk(c, "get")
        /\ req[c].response[1].core_memory = CoreOf(store[req[c].uuid])
        /\ req[c].response[1].recall_memory = store[req[c].uuid].recall_memory_count

\* ---------------------------------------------------------------- C10
\* C10: a step of a request on agent A leaves the record and the update
\* order of every other agent B unchanged, and what B's requests return is
\* determined by B's own update order alone.
C10_AgentsIndependent ==
    [][ /\ \A c \in Clients : req'[c] # req[c] =>
              \A b \in Agents :
                  b # req'[c].uuid =>
                      store'[b] = store[b] /\ history'[b] = history[b]
        /\ \A c \in Clients :
              (req'[c].pc = "done" /\ req'[c].status = "ok") =>
                  LET b == req'[c].uuid IN
                  /\ req'[c].idx \in 1..Len(history'[b])
                  /\ req'[c].op = "get" =>
                        req'[c].response[1].core_memory = history'[b][req'[c].idx]
                  /\ req'[c].op = "update" =>
                        req'[c].response[1].new_core_memory = history'[b][req'[c].idx]
      ]_vars

\* An update changed one agent while a fetch of the other agent, read after
\* it, returned that agent's initial core memory.
C10_Witness ==
    \E c, d \in Clients :
        /\ DoneOk(c, "update") /\ DoneOk(d, "get")
        /\ req[c].uuid # req[d].uuid
        /\ req[c].response[1].new_core_memory # req[c].response[1].old_core_memory
        /\ req[d].response[1].core_memory = history[req[d].uuid][1]
        /\ Len(history[req[d].uuid]) = 1
====
